---- MODULE Spec2Model ----
(***************************************************************************)
(* ACPI table builders of acpi_tables: MADT (madt.rs), RHCT (rhct.rs),     *)
(* XSDT (xsdt.rs) and RQSC (rqsc.rs).  A builder owns a header, a running  *)
(* checksum and an ordered list of structures; every add_* operation       *)
(* updates the header and stores the structure; to_aml_bytes emits the     *)
(* header followed by the structures.                                      *)
(*                                                                         *)
(* Values are modelled at byte level.  A byte is a number in 0..255.  A    *)
(* u32 on which the code does arithmetic (table length, node count,        *)
(* handle offset) is a number.  Any other u16/u32/u64 field is carried as  *)
(* its sequence of 16-bit limbs, least significant first, so the full      *)
(* value range is available.                                               *)
(***************************************************************************)
EXTENDS Integers, Sequences, FiniteSets, Bags, TLC

VARIABLES
    table,      \* which builder the caller constructed: "MADT", "RHCT", "XSDT", "RQSC"
    madt,       \* the MADT value (header, checksum, structures, has_imsic)
    rhct,       \* the RHCT value (header, handle_offset, checksum, structures)
    xsdt,       \* the XSDT value (header, checksum, entries)
    rqsc,       \* the RQSC value (header, structures)
    handles,    \* the IsaStringHandle values returned to the caller so far
    aborted,    \* TRUE once an assert! has failed (the process is gone)
    appended,   \* the structures handed to the add_* calls that returned, in call order
    sinks,      \* the bytes each to_aml_bytes call since the last add_* wrote to its Vec
    acc         \* a Checksum exercised on its own, with the byte strings it holds

vars == <<table, madt, rhct, xsdt, rqsc, handles, aborted, appended, sinks, acc>>

(***************************************************************************)
(* Bounds of the model.                                                    *)
(***************************************************************************)
MaxMadtStructures == 7
MaxRhctNodes == 4
MaxXsdtEntries == 3
MaxRqscControllers == 4
\* to_aml_bytes is called at most MaxSerializeCalls times between two add_* calls,
\* on builders of at most MaxSerializedStructures structures
MaxSerializeCalls == 2
MaxSerializedStructures == 3

\* The value of a builder the caller did not construct.
Absent == <<>>

(***************************************************************************)
(* Bytes and little-endian encodings.                                      *)
(***************************************************************************)
\* iter().fold(0u8, |acc, x| acc.wrapping_add(*x)): the sum of the bytes, reduced
\* mod 256.  The sum is taken as the size of the bag holding index i bytes[i] + 1
\* times (a bag has no zero counts), less the Len(bytes) extra copies.
SumBytes(bytes) ==
    (BagCardinality([i \in 1..Len(bytes) |-> bytes[i] + 1]) - Len(bytes)) % 256

\* generate_checksum without the wrap of the final + 1
generate_checksum_NoWrap(data) == (255 - SumBytes(data)) + 1

\* generate_checksum(data): (255 - fold).wrapping_add(1)
generate_checksum(data) == ((255 - SumBytes(data)) + 1) % 256

\* u16::to_le_bytes
LE16(w) == <<w % 256, (w \div 256) % 256>>

\* u32::to_le_bytes of a u32 the code computes with
LE32(d) == <<d % 256, (d \div 256) % 256, (d \div 65536) % 256, (d \div 16777216) % 256>>

\* to_le_bytes of a value carried as 16-bit limbs, least significant limb first
LimbsLE(limbs) ==
    [i \in 1..(2 * Len(limbs)) |->
        IF i % 2 = 1 THEN limbs[(i + 1) \div 2] % 256
                     ELSE (limbs[i \div 2] \div 256) % 256]

\* a u16, u32 or u64 literal as limbs: Wide16(0xbeef), Wide32(0xdead, 0xbeef), ...
Wide16(w0) == <<w0>>
Wide32(w1, w0) == <<w0, w1>>
Wide64(w3, w2, w1, w0) == <<w0, w1, w2, w3>>

RECURSIVE Flatten(_)
\* the bytes of a list of byte strings, in order
Flatten(seqs) ==
    IF seqs = <<>> THEN <<>>
    ELSE seqs[1] \o Flatten(Tail(seqs))

(***************************************************************************)
(* Checksum: a running 8-bit sum.                                          *)
(***************************************************************************)
\* Checksum::default()
Checksum_default == 0

\* Checksum::append that shifts the running state before it folds the bytes in, so
\* that the order of the calls matters
Checksum_append_Shifted(state, data) == (2 * state + SumBytes(data)) % 256

\* Checksum::append(data)
Checksum_append(state, data) == (state + SumBytes(data)) % 256

\* Checksum::delete with a subtraction that stops at 0 instead of wrapping
Checksum_delete_Saturating(state, data) ==
    IF SumBytes(data) > state THEN 0 ELSE state - SumBytes(data)

\* Checksum::delete(data): wrapping subtraction of every byte
Checksum_delete(state, data) == (state + 256 - SumBytes(data)) % 256

\* Checksum::add(value)
Checksum_add(state, value) == (state + value) % 256

\* Checksum::value(): (255 - sum) wrapping_add 1
Checksum_value(state) == ((255 - state) + 1) % 256

\* u8sum(aml): the structure serialized into a summing sink
u8sum(bytes) == SumBytes(bytes)

\* <Checksum as AmlSink>::byte(byte): one byte folded into the running state
Checksum_byte(state, byte) == (state + byte) % 256

\* a structure's to_aml_bytes with the Checksum as the sink: every byte the word, dword
\* and byte calls split the values into, bytes[lo..hi], folded in one after the other
RECURSIVE Checksum_replay(_, _, _, _)
Checksum_replay(state, bytes, lo, hi) ==
    IF lo > hi THEN state
    ELSE IF lo = hi THEN Checksum_byte(state, bytes[lo])
    ELSE LET mid == (lo + hi) \div 2
             left == Checksum_replay(state, bytes, lo, mid)
         IN  IF left \in 0..255 THEN Checksum_replay(left, bytes, mid + 1, hi) ELSE left

(***************************************************************************)
(* TableHeader                                                             *)
(***************************************************************************)
CREATOR_ID == <<82, 73, 86, 83>>
CREATOR_REVISION == <<0, 0, 0, 1>>

\* TableHeader::as_bytes (packed, little-endian)
TableHeader_as_bytes(h) ==
    h.signature \o LE32(h.length) \o <<h.revision, h.checksum>>
        \o h.oem_id \o h.oem_table_id \o LimbsLE(h.oem_revision)
        \o h.creator_id \o h.creator_revision

\* TableHeader::len(): size_of::<TableHeader>()
TableHeader_len ==
    Len(TableHeader_as_bytes([signature |-> <<0, 0, 0, 0>>, length |-> 0, revision |-> 0,
        checksum |-> 0, oem_id |-> <<0, 0, 0, 0, 0, 0>>,
        oem_table_id |-> <<0, 0, 0, 0, 0, 0, 0, 0>>, oem_revision |-> Wide32(0, 0),
        creator_id |-> CREATOR_ID, creator_revision |-> CREATOR_REVISION]))

\* OEM identifiers a caller passes to new: (oem_id, oem_table_id, oem_revision)
\* b"FOOBAR", b"DECAFCOF", 0xdead_beef
OemFoobar ==
    [oem_id |-> <<70, 79, 79, 66, 65, 82>>,
     oem_table_id |-> <<68, 69, 67, 65, 70, 67, 79, 70>>,
     oem_revision |-> Wide32(57005, 48879)]

\* b"RIVOS\0", b"RIVOS\0\0\0", 42
OemRivos ==
    [oem_id |-> <<82, 73, 86, 79, 83, 0>>,
     oem_table_id |-> <<82, 73, 86, 79, 83, 0, 0, 0>>,
     oem_revision |-> Wide32(0, 42)]

(***************************************************************************)
(* MADT                                                                    *)
(***************************************************************************)
RISCV_INTC_STRUCTURE == 24
RISCV_IMSIC_STRUCTURE == 25
RISCV_APLIC_STRUCTURE == 26

\* madt.rs Header::as_bytes
MADT_Header_as_bytes(h) ==
    TableHeader_as_bytes(h.table_header)
        \o LimbsLE(h.local_interrupt_controller_address) \o LimbsLE(h.flags)

\* RINTC::as_bytes
RINTC_as_bytes(s) ==
    <<s.type, s.length, s.version, s.reserved>> \o LimbsLE(s.flags)
        \o LimbsLE(s.hart_id) \o LimbsLE(s.acpi_processor_uid)

\* IMSIC::as_bytes
IMSIC_as_bytes(s) ==
    <<s.type, s.length, s.version>> \o s.reserved
        \o LimbsLE(s.num_supervisor_interrupt_identities)
        \o LimbsLE(s.num_guest_interrupt_identities)
        \o <<s.guest_index_bits, s.hart_index_bits, s.group_index_bits, s.group_index_shift>>

\* APLIC::as_bytes
APLIC_as_bytes(s) ==
    <<s.type, s.length, s.version, s.reserved>> \o LimbsLE(s.aplic_id) \o s.hardware_id
        \o LimbsLE(s.number_of_idcs) \o LimbsLE(s.global_system_interrupt_base)
        \o LimbsLE(s.aplic_address) \o LimbsLE(s.aplic_size)
        \o LimbsLE(s.total_external_interrupt_sources)

\* RINTC::len(), IMSIC::len(), APLIC::len(): size_of::<Self>()
RINTC_len == 20
IMSIC_len == 16
APLIC_len == 38

\* RINTC::new(hart_status, mhartid, acpi_processor_uid)
RINTC_new(hart_status, mhartid, acpi_processor_uid) ==
    [type |-> RISCV_INTC_STRUCTURE, length |-> RINTC_len % 256, version |-> 1,
     reserved |-> 0, flags |-> Wide32(0, hart_status), hart_id |-> mhartid,
     acpi_processor_uid |-> acpi_processor_uid]

\* IMSIC::new(...)
IMSIC_new(num_s, num_g, guest_index_bits, hart_index_bits, group_index_bits, group_index_shift) ==
    [type |-> RISCV_IMSIC_STRUCTURE, length |-> IMSIC_len % 256, version |-> 1,
     reserved |-> <<0, 0, 0, 0, 0>>,
     num_supervisor_interrupt_identities |-> num_s,
     num_guest_interrupt_identities |-> num_g,
     guest_index_bits |-> guest_index_bits, hart_index_bits |-> hart_index_bits,
     group_index_bits |-> group_index_bits, group_index_shift |-> group_index_shift]

\* APLIC::new(...)
APLIC_new(aplic_id, hardware_id, number_of_idcs, global_system_interrupt_base, aplic_address, aplic_size, total_external_interrupt_sources) ==
    [type |-> RISCV_APLIC_STRUCTURE, length |-> APLIC_len % 256, version |-> 1,
     reserved |-> 0, aplic_id |-> aplic_id, hardware_id |-> hardware_id,
     number_of_idcs |-> number_of_idcs,
     global_system_interrupt_base |-> global_system_interrupt_base,
     aplic_address |-> aplic_address, aplic_size |-> aplic_size,
     total_external_interrupt_sources |-> total_external_interrupt_sources]

\* <dyn Aml>::to_aml_bytes of a structure stored in a MADT (aml_as_bytes!)
MADT_Structure_bytes(s) ==
    IF s.type = RISCV_INTC_STRUCTURE THEN RINTC_as_bytes(s)
    ELSE IF s.type = RISCV_IMSIC_STRUCTURE THEN IMSIC_as_bytes(s)
    ELSE APLIC_as_bytes(s)

\* madt.rs Header::len(): size_of::<Header>()
MADT_Header_len == TableHeader_len + 4 + 4

\* MADT::new with the length seeded from TableHeader::len() instead of Header::len()
MADT_new_TableHeaderLen(oem, int) ==
    LET header == [table_header |->
                      [signature |-> <<65, 80, 73, 67>>,
                       length |-> TableHeader_len,
                       revision |-> 1,
                       checksum |-> 0,
                       oem_id |-> oem.oem_id,
                       oem_table_id |-> oem.oem_table_id,
                       oem_revision |-> oem.oem_revision,
                       creator_id |-> CREATOR_ID,
                       creator_revision |-> CREATOR_REVISION],
                   local_interrupt_controller_address |-> int,
                   flags |-> Wide32(0, 0)]
        cksum == Checksum_append(Checksum_default, MADT_Header_as_bytes(header))
    IN  [header |-> [header EXCEPT !.table_header.checksum = Checksum_value(cksum)],
         checksum |-> cksum,
         structures |-> <<>>,
         has_imsic |-> FALSE]

\* MADT::new(oem_id, oem_table_id, oem_revision, int)
MADT_new(oem, int) ==
    LET header == [table_header |->
                      [signature |-> <<65, 80, 73, 67>>,
                       length |-> MADT_Header_len,
                       revision |-> 1,
                       checksum |-> 0,
                       oem_id |-> oem.oem_id,
                       oem_table_id |-> oem.oem_table_id,
                       oem_revision |-> oem.oem_revision,
                       creator_id |-> CREATOR_ID,
                       creator_revision |-> CREATOR_REVISION],
                   local_interrupt_controller_address |-> int,
                   flags |-> Wide32(0, 0)]
        cksum == Checksum_append(Checksum_default, MADT_Header_as_bytes(header))
    IN  [header |-> [header EXCEPT !.table_header.checksum = Checksum_value(cksum)],
         checksum |-> cksum,
         structures |-> <<>>,
         has_imsic |-> FALSE]

\* MADT::update_header without the delete of the old length encoding
MADT_update_header_NoDelete(m, data) ==
    LET len == Len(data)
        old_len == m.header.table_header.length
        new_len == len + old_len
        c2 == Checksum_append(m.checksum, LE32(new_len))
        c3 == Checksum_append(c2, data)
    IN  [m EXCEPT !.header.table_header.length = new_len,
                  !.checksum = c3,
                  !.header.table_header.checksum = Checksum_value(c3)]

\* MADT::update_header(data)
MADT_update_header(m, data) ==
    LET len == Len(data)
        old_len == m.header.table_header.length
        new_len == len + old_len
        c1 == Checksum_delete(m.checksum, LE32(old_len))
        c2 == Checksum_append(c1, LE32(new_len))
        c3 == Checksum_append(c2, data)
    IN  [m EXCEPT !.header.table_header.length = new_len,
                  !.checksum = c3,
                  !.header.table_header.checksum = Checksum_value(c3)]

\* MADT::add_rintc that updates the header but does not store the structure
MADT_add_rintc_NoPush(m, rintc) == MADT_update_header(m, RINTC_as_bytes(rintc))

\* MADT::add_rintc(rintc)
MADT_add_rintc(m, rintc) ==
    LET m1 == MADT_update_header(m, RINTC_as_bytes(rintc))
    IN  [m1 EXCEPT !.structures = Append(@, rintc)]

\* MADT::add_imsic with the assert! placed after update_header
MADT_add_imsic_LateAssert(m, imsic) ==
    LET m1 == MADT_update_header(m, IMSIC_as_bytes(imsic))
    IN  IF m.has_imsic
        THEN [aborted |-> TRUE, madt |-> m1]
        ELSE [aborted |-> FALSE,
              madt |-> [m1 EXCEPT !.structures = Append(@, imsic), !.has_imsic = TRUE]]

\* MADT::add_imsic(imsic): the value of the MADT when the call returns or aborts
MADT_add_imsic(m, imsic) ==
    IF m.has_imsic
    THEN [aborted |-> TRUE, madt |-> m]
    ELSE LET m1 == MADT_update_header(m, IMSIC_as_bytes(imsic))
         IN  [aborted |-> FALSE,
              madt |-> [m1 EXCEPT !.structures = Append(@, imsic), !.has_imsic = TRUE]]

\* MADT::add_aplic that stores the structure in front of the ones already held
MADT_add_aplic_PushFront(m, aplic) ==
    LET m1 == MADT_update_header(m, APLIC_as_bytes(aplic))
    IN  [m1 EXCEPT !.structures = <<aplic>> \o @]

\* MADT::add_aplic(aplic)
MADT_add_aplic(m, aplic) ==
    LET m1 == MADT_update_header(m, APLIC_as_bytes(aplic))
    IN  [m1 EXCEPT !.structures = Append(@, aplic)]

\* <MADT as Aml>::to_aml_bytes into a Vec<u8>
MADT_to_aml_bytes(m) ==
    MADT_Header_as_bytes(m.header)
        \o Flatten([i \in 1..Len(m.structures) |-> MADT_Structure_bytes(m.structures[i])])

\* <MADT as Aml>::to_aml_bytes(&self, sink): the MADT and the sink after the call
MADT_Aml_to_aml_bytes(m, sink) == [self |-> m, sink |-> sink \o MADT_to_aml_bytes(m)]

\* LocalInterruptController::Riscv => 0, Address(addr) => addr
Riscv == Wide32(0, 0)
Address(addr) == addr

\* The arguments a caller passes to MADT::new
MadtNewInputs ==
    { [oem |-> OemFoobar, int |-> Riscv],
      [oem |-> OemRivos, int |-> Address(Wide32(65248, 0))] }

RintcInputs ==
    { RINTC_new(1, Wide64(0, 0, 0, 42), Wide32(0, 4096)),
      RINTC_new(2, Wide64(65535, 65535, 65535, 65535), Wide32(65535, 65535)) }

ImsicInputs ==
    { IMSIC_new(Wide16(2047), Wide16(63), 7, 15, 7, 55) }

AplicInputs ==
    { APLIC_new(Wide32(0, 0), <<65, 66, 67, 68, 69, 0, 0, 0>>, Wide32(0, 2),
                Wide32(32768, 0), Wide64(0, 1, 0, 0), Wide32(0, 33170), Wide16(767)) }

InitMADT ==
    /\ table = "MADT"
    /\ \E in \in MadtNewInputs : madt = MADT_new(in.oem, in.int)
    /\ rhct = Absent /\ xsdt = Absent /\ rqsc = Absent
    /\ handles = <<>>
    /\ aborted = FALSE
    /\ appended = <<>> /\ sinks = <<>> /\ acc = Absent

AddRintc ==
    /\ table = "MADT" /\ ~aborted
    /\ Len(madt.structures) < MaxMadtStructures
    /\ \E rintc \in RintcInputs :
          /\ madt' = MADT_add_rintc(madt, rintc)
          /\ appended' = Append(appended, rintc)
    /\ sinks' = <<>>
    /\ UNCHANGED <<table, rhct, xsdt, rqsc, handles, aborted, acc>>

AddImsic ==
    /\ table = "MADT" /\ ~aborted
    /\ madt.has_imsic \/ Len(madt.structures) < MaxMadtStructures
    /\ \E imsic \in ImsicInputs :
          LET r == MADT_add_imsic(madt, imsic)
          IN  /\ madt' = r.madt /\ aborted' = r.aborted
              /\ appended' = IF r.aborted THEN appended ELSE Append(appended, imsic)
              /\ sinks' = IF r.aborted THEN sinks ELSE <<>>
    /\ UNCHANGED <<table, rhct, xsdt, rqsc, handles, acc>>

AddAplic ==
    /\ table = "MADT" /\ ~aborted
    /\ Len(madt.structures) < MaxMadtStructures
    /\ \E aplic \in AplicInputs :
          /\ madt' = MADT_add_aplic(madt, aplic)
          /\ appended' = Append(appended, aplic)
    /\ sinks' = <<>>
    /\ UNCHANGED <<table, rhct, xsdt, rqsc, handles, aborted, acc>>

\* madt.to_aml_bytes(&mut bytes) with a fresh Vec
MadtToAmlBytes ==
    /\ table = "MADT" /\ ~aborted
    /\ Len(madt.structures) <= MaxSerializedStructures
    /\ Len(sinks) < MaxSerializeCalls
    /\ LET r == MADT_Aml_to_aml_bytes(madt, <<>>)
       IN  madt' = r.self /\ sinks' = Append(sinks, r.sink)
    /\ UNCHANGED <<table, rhct, xsdt, rqsc, handles, aborted, appended, acc>>

NextMADT == AddRintc \/ AddImsic \/ AddAplic \/ MadtToAmlBytes

SpecMADT == InitMADT /\ [][NextMADT]_vars

\* the number of stored MADT structures of one type
MadtCount(m, type) == Cardinality({i \in 1..Len(m.structures) : m.structures[i].type = type})

\* C1: after MADT::new and after every add_rintc, add_aplic and add_imsic, the bytes
\* to_aml_bytes produces (header, then all stored structures) sum to 0 mod 256.
C1_MadtChecksum ==
    table = "MADT" => SumBytes(MADT_to_aml_bytes(madt)) = 0

\* a MADT holding RINTC, IMSIC and APLIC structures whose length no longer fits one byte
C1_Witness ==
    /\ table = "MADT"
    /\ MadtCount(madt, RISCV_INTC_STRUCTURE) > 0
    /\ MadtCount(madt, RISCV_IMSIC_STRUCTURE) = 1
    /\ MadtCount(madt, RISCV_APLIC_STRUCTURE) > 0
    /\ madt.header.table_header.length > 255
    /\ SumBytes(MADT_to_aml_bytes(madt)) = 0

\* C5: the MADT header's length field equals the number of bytes to_aml_bytes
\* produces, which is 44 + 20 * #RINTC + 16 * #IMSIC + 38 * #APLIC.
C5_MadtLength ==
    table = "MADT" =>
        /\ madt.header.table_header.length = Len(MADT_to_aml_bytes(madt))
        /\ Len(MADT_to_aml_bytes(madt)) =
               44 + 20 * MadtCount(madt, RISCV_INTC_STRUCTURE)
                  + 16 * MadtCount(madt, RISCV_IMSIC_STRUCTURE)
                  + 38 * MadtCount(madt, RISCV_APLIC_STRUCTURE)

\* a MADT of all three structure types whose length field matches its bytes
C5_Witness ==
    /\ table = "MADT"
    /\ MadtCount(madt, RISCV_INTC_STRUCTURE) >= 2
    /\ MadtCount(madt, RISCV_IMSIC_STRUCTURE) = 1
    /\ MadtCount(madt, RISCV_APLIC_STRUCTURE) >= 2
    /\ madt.header.table_header.length = Len(MADT_to_aml_bytes(madt))

\* C10: a MADT never holds more than one IMSIC; add_imsic on a MADT that already has
\* one aborts, and at the abort the header, the checksum accumulator, the stored
\* structures and has_imsic are what they were before the call.
C10_SingletonImsic ==
    /\ [](table = "MADT" => MadtCount(madt, RISCV_IMSIC_STRUCTURE) <= 1)
    /\ [][ /\ (AddImsic /\ madt.has_imsic) => (aborted' /\ madt' = madt)
           /\ (~aborted /\ aborted') => (madt.has_imsic /\ madt' = madt) ]_vars

\* a second add_imsic was attempted and aborted
C10_Witness ==
    /\ table = "MADT"
    /\ aborted
    /\ madt.has_imsic
    /\ MadtCount(madt, RISCV_IMSIC_STRUCTURE) = 1

(***************************************************************************)
(* RHCT                                                                    *)
(***************************************************************************)
\* AmlSink::word and AmlSink::dword into a byte sink: little-endian bytes
AmlSink_word(w) == LE16(w % 65536)
AmlSink_dword(d) == LE32(d)

\* rhct.rs Header::as_bytes
RHCT_Header_as_bytes(h) ==
    TableHeader_as_bytes(h.table_header) \o LE32(h.reserved)
        \o LimbsLE(h.timebase_frequency) \o LE32(h.rhct_nodes) \o LE32(h.array_offset)

\* rhct.rs Header::len(): size_of::<Header>()
RHCT_Header_len == TableHeader_len + 4 + 8 + 4 + 4

\* RhctNodeType
IsaString == 0
HartInfo == 65535

\* IsaStringNode::REVISION, HartInfoNode::REVISION
IsaStringNode_REVISION == 1
HartInfoNode_REVISION == 1

\* IsaStringNode::new(string); node names the implementation of Aml behind the Box
IsaStringNode_new(string) == [node |-> "IsaStringNode", string |-> string]

\* IsaStringNode::len without the padding byte
IsaStringNode_len_NoPadding(n) == 8 + Len(n.string) + 1

\* IsaStringNode::len()
IsaStringNode_len(n) ==
    LET len == 8 + Len(n.string) + 1
    IN  IF len % 2 = 0 THEN len ELSE len + 1

\* <IsaStringNode as Aml>::to_aml_bytes that pads when the string length with its
\* terminator is even
IsaStringNode_to_aml_bytes_PadEven(n) ==
    LET strlen == (Len(n.string) % 65536) + 1
        padding_reqd == strlen % 2 = 0
    IN  AmlSink_word(IsaString) \o AmlSink_word(IsaStringNode_len(n))
            \o AmlSink_word(IsaStringNode_REVISION) \o AmlSink_word(strlen)
            \o n.string \o <<0>> \o (IF padding_reqd THEN <<0>> ELSE <<>>)

\* <IsaStringNode as Aml>::to_aml_bytes
IsaStringNode_to_aml_bytes(n) ==
    LET strlen == (Len(n.string) % 65536) + 1
        padding_reqd == strlen % 2 = 1
    IN  AmlSink_word(IsaString) \o AmlSink_word(IsaStringNode_len(n))
            \o AmlSink_word(IsaStringNode_REVISION) \o AmlSink_word(strlen)
            \o n.string \o <<0>> \o (IF padding_reqd THEN <<0>> ELSE <<>>)

\* HartInfoNode::new(processor_uid, handle)
HartInfoNode_new(processor_uid, handle) ==
    [node |-> "HartInfoNode", processor_uid |-> processor_uid, handle |-> handle]

\* HartInfoNode::len() that counts no handle
HartInfoNode_len_NoHandle == 12 + 0

\* HartInfoNode::len()
HartInfoNode_len == 12 + 4

\* <HartInfoNode as Aml>::to_aml_bytes
HartInfoNode_to_aml_bytes(n) ==
    AmlSink_word(HartInfo) \o AmlSink_word(HartInfoNode_len)
        \o AmlSink_word(HartInfoNode_REVISION) \o AmlSink_word(1)
        \o LimbsLE(n.processor_uid) \o AmlSink_dword(n.handle)

\* <dyn Aml>::to_aml_bytes of a node stored in a RHCT
RHCT_Node_bytes(n) ==
    IF n.node = "IsaStringNode" THEN IsaStringNode_to_aml_bytes(n)
    ELSE HartInfoNode_to_aml_bytes(n)

\* IsaStringNode::u8sum that sums the string bytes alone
IsaStringNode_u8sum_StringOnly(n) == u8sum(n.string)

\* IsaStringNode::u8sum()
IsaStringNode_u8sum(n) == u8sum(IsaStringNode_to_aml_bytes(n))

\* HartInfoNode::u8sum()
HartInfoNode_u8sum(n) == u8sum(HartInfoNode_to_aml_bytes(n))

\* RHCT::new(oem_id, oem_table_id, oem_revision, timebase_frequency)
RHCT_new(oem, timebase_frequency) ==
    LET header == [table_header |->
                      [signature |-> <<82, 72, 67, 84>>,
                       length |-> RHCT_Header_len,
                       revision |-> 1,
                       checksum |-> 0,
                       oem_id |-> oem.oem_id,
                       oem_table_id |-> oem.oem_table_id,
                       oem_revision |-> oem.oem_revision,
                       creator_id |-> CREATOR_ID,
                       creator_revision |-> CREATOR_REVISION],
                   reserved |-> 0,
                   timebase_frequency |-> timebase_frequency,
                   rhct_nodes |-> 0,
                   array_offset |-> 56]
        cksum == Checksum_append(Checksum_default, RHCT_Header_as_bytes(header))
    IN  [header |-> [header EXCEPT !.table_header.checksum = Checksum_value(cksum)],
         handle_offset |-> RHCT_Header_len,
         checksum |-> cksum,
         structures |-> <<>>]

\* RHCT::update_header without the retraction of the old node count
RHCT_update_header_NoCountDelete(r, sum, len) ==
    LET old_len == r.header.table_header.length
        new_len == len + old_len
        old_node_count == r.header.rhct_nodes
        new_node_count == old_node_count + 1
        c2 == Checksum_append(r.checksum, LE32(new_node_count))
        c3 == Checksum_delete(c2, LE32(old_len))
        c4 == Checksum_append(c3, LE32(new_len))
        c5 == Checksum_add(c4, sum)
    IN  [r EXCEPT !.header.table_header.length = new_len,
                  !.header.rhct_nodes = new_node_count,
                  !.checksum = c5,
                  !.header.table_header.checksum = Checksum_value(c5)]

\* RHCT::update_header that moves the accumulator to the new node count but leaves
\* the header's rhct_nodes field as it was
RHCT_update_header_StaleCount(r, sum, len) ==
    LET old_len == r.header.table_header.length
        new_len == len + old_len
        old_node_count == r.header.rhct_nodes
        new_node_count == old_node_count + 1
        c1 == Checksum_delete(r.checksum, LE32(old_node_count))
        c2 == Checksum_append(c1, LE32(new_node_count))
        c3 == Checksum_delete(c2, LE32(old_len))
        c4 == Checksum_append(c3, LE32(new_len))
        c5 == Checksum_add(c4, sum)
    IN  [r EXCEPT !.header.table_header.length = new_len,
                  !.checksum = c5,
                  !.header.table_header.checksum = Checksum_value(c5)]

\* RHCT::update_header(sum, len)
RHCT_update_header(r, sum, len) ==
    LET old_len == r.header.table_header.length
        new_len == len + old_len
        old_node_count == r.header.rhct_nodes
        new_node_count == old_node_count + 1
        c1 == Checksum_delete(r.checksum, LE32(old_node_count))
        c2 == Checksum_append(c1, LE32(new_node_count))
        c3 == Checksum_delete(c2, LE32(old_len))
        c4 == Checksum_append(c3, LE32(new_len))
        c5 == Checksum_add(c4, sum)
    IN  [r EXCEPT !.header.table_header.length = new_len,
                  !.header.rhct_nodes = new_node_count,
                  !.checksum = c5,
                  !.header.table_header.checksum = Checksum_value(c5)]

\* RHCT::add_isa_string returning the offset after the node instead of before it
RHCT_add_isa_string_NewOffset(r, string) ==
    LET node == IsaStringNode_new(string)
        r1 == [r EXCEPT !.handle_offset = @ + IsaStringNode_len(node)]
        r2 == RHCT_update_header(r1, IsaStringNode_u8sum(node), IsaStringNode_len(node))
    IN  [rhct |-> [r2 EXCEPT !.structures = Append(@, node)],
         handle |-> r1.handle_offset]

\* RHCT::add_isa_string(string): the RHCT afterwards and the IsaStringHandle returned
RHCT_add_isa_string(r, string) ==
    LET node == IsaStringNode_new(string)
        old_offset == r.handle_offset
        r1 == [r EXCEPT !.handle_offset = @ + IsaStringNode_len(node)]
        r2 == RHCT_update_header(r1, IsaStringNode_u8sum(node), IsaStringNode_len(node))
    IN  [rhct |-> [r2 EXCEPT !.structures = Append(@, node)],
         handle |-> old_offset]

\* RHCT::add_hart_info that leaves handle_offset where it was
RHCT_add_hart_info_NoOffset(r, hi) ==
    LET r2 == RHCT_update_header(r, HartInfoNode_u8sum(hi), HartInfoNode_len)
    IN  [r2 EXCEPT !.structures = Append(@, hi)]

\* RHCT::add_hart_info(hi)
RHCT_add_hart_info(r, hi) ==
    LET r1 == [r EXCEPT !.handle_offset = @ + HartInfoNode_len]
        r2 == RHCT_update_header(r1, HartInfoNode_u8sum(hi), HartInfoNode_len)
    IN  [r2 EXCEPT !.structures = Append(@, hi)]

\* <RHCT as Aml>::to_aml_bytes into a Vec<u8>
RHCT_to_aml_bytes(r) ==
    RHCT_Header_as_bytes(r.header)
        \o Flatten([i \in 1..Len(r.structures) |-> RHCT_Node_bytes(r.structures[i])])

\* <RHCT as Aml>::to_aml_bytes(&self, sink): the RHCT and the sink after the call
RHCT_Aml_to_aml_bytes(r, sink) == [self |-> r, sink |-> sink \o RHCT_to_aml_bytes(r)]

\* The arguments a caller passes to RHCT::new; 0x9012_1234_5678 is the tests' timebase
RhctNewInputs ==
    { [oem |-> OemRivos, timebase_frequency |-> Wide64(0, 36882, 4660, 22136)],
      [oem |-> OemFoobar, timebase_frequency |-> Wide64(65535, 0, 152, 38528)] }

\* a string of n bytes 'a'
StringOf(n) == [i \in 1..n |-> 97]

\* ISA strings: "foobar" (padded), "rv64i" (not padded), and a 200-byte string
IsaStrings ==
    { <<102, 111, 111, 98, 97, 114>>, <<114, 118, 54, 52, 105>>, StringOf(200) }

\* processor uids given to HartInfoNode::new
ProcessorUids == { Wide32(0, 0), Wide32(65535, 65280) }

InitRHCT ==
    /\ table = "RHCT"
    /\ \E in \in RhctNewInputs : rhct = RHCT_new(in.oem, in.timebase_frequency)
    /\ madt = Absent /\ xsdt = Absent /\ rqsc = Absent
    /\ handles = <<>>
    /\ aborted = FALSE
    /\ appended = <<>> /\ sinks = <<>> /\ acc = Absent

\* add_isa_string; the caller keeps the handle, noted with the node it was minted for
AddIsaString ==
    /\ table = "RHCT" /\ ~aborted
    /\ Len(rhct.structures) < MaxRhctNodes
    /\ \E string \in IsaStrings :
          LET r == RHCT_add_isa_string(rhct, string)
          IN  /\ rhct' = r.rhct
              /\ handles' = Append(handles, [handle |-> r.handle,
                                             node |-> Len(rhct.structures) + 1])
              /\ appended' = Append(appended, IsaStringNode_new(string))
    /\ sinks' = <<>>
    /\ UNCHANGED <<table, madt, xsdt, rqsc, aborted, acc>>

\* add_hart_info(HartInfoNode::new(uid, &handle)) for a handle the caller holds
AddHartInfo ==
    /\ table = "RHCT" /\ ~aborted
    /\ Len(rhct.structures) < MaxRhctNodes
    /\ \E uid \in ProcessorUids, h \in 1..Len(handles) :
          /\ rhct' = RHCT_add_hart_info(rhct, HartInfoNode_new(uid, handles[h].handle))
          /\ appended' = Append(appended, HartInfoNode_new(uid, handles[h].handle))
    /\ sinks' = <<>>
    /\ UNCHANGED <<table, madt, xsdt, rqsc, handles, aborted, acc>>

\* rhct.to_aml_bytes(&mut bytes) with a fresh Vec
RhctToAmlBytes ==
    /\ table = "RHCT" /\ ~aborted
    /\ Len(rhct.structures) <= MaxSerializedStructures
    /\ Len(sinks) < MaxSerializeCalls
    /\ LET r == RHCT_Aml_to_aml_bytes(rhct, <<>>)
       IN  rhct' = r.self /\ sinks' = Append(sinks, r.sink)
    /\ UNCHANGED <<table, madt, xsdt, rqsc, handles, aborted, appended, acc>>

NextRHCT == AddIsaString \/ AddHartInfo \/ RhctToAmlBytes

SpecRHCT == InitRHCT /\ [][NextRHCT]_vars

\* the stored RHCT nodes of one implementation, by index
RhctNodes(r, node) == {i \in 1..Len(r.structures) : r.structures[i].node = node}

\* the byte offset, from the start of the serialized table, at which node k begins
RhctNodeOffset(r, k) ==
    Len(RHCT_Header_as_bytes(r.header)
        \o Flatten([i \in 1..(k - 1) |-> RHCT_Node_bytes(r.structures[i])]))

\* the u32 read back from four little-endian bytes at offset off (0-based) of bytes
ReadDword(bytes, off) ==
    bytes[off + 1] + 256 * bytes[off + 2] + 65536 * bytes[off + 3]
        + 16777216 * bytes[off + 4]

\* C2: after RHCT::new and after every add_isa_string and add_hart_info, the bytes
\* to_aml_bytes produces sum to 0 mod 256.
C2_RhctChecksum ==
    table = "RHCT" => SumBytes(RHCT_to_aml_bytes(rhct)) = 0

\* a RHCT with ISA-string and hart-info nodes, longer than 255 bytes, summing to 0
C2_Witness ==
    /\ table = "RHCT"
    /\ Cardinality(RhctNodes(rhct, "IsaStringNode")) >= 2
    /\ Cardinality(RhctNodes(rhct, "HartInfoNode")) >= 2
    /\ rhct.header.table_header.length > 255
    /\ SumBytes(RHCT_to_aml_bytes(rhct)) = 0

\* the sum over a set of node indices of 9 + string length rounded up to even
RECURSIVE IsaSizes(_, _)
IsaSizes(r, idx) ==
    IF idx = {} THEN 0
    ELSE LET i == CHOOSE j \in idx : TRUE
             n == 9 + Len(r.structures[i].string)
         IN  (n + (n % 2)) + IsaSizes(r, idx \ {i})

\* C8: the RHCT header's length field equals the number of bytes to_aml_bytes
\* produces: 56, plus 9 + string length rounded up to even for each ISA-string node,
\* plus 16 for each hart-info node.
C8_RhctLength ==
    table = "RHCT" =>
        /\ rhct.header.table_header.length = Len(RHCT_to_aml_bytes(rhct))
        /\ Len(RHCT_to_aml_bytes(rhct)) =
               56 + IsaSizes(rhct, RhctNodes(rhct, "IsaStringNode"))
                  + 16 * Cardinality(RhctNodes(rhct, "HartInfoNode"))

\* a RHCT holding a padded and an unpadded ISA string and a hart-info node
C8_Witness ==
    /\ table = "RHCT"
    /\ \E i, j \in RhctNodes(rhct, "IsaStringNode") :
          Len(rhct.structures[i].string) % 2 = 0 /\ Len(rhct.structures[j].string) % 2 = 1
    /\ RhctNodes(rhct, "HartInfoNode") # {}
    /\ rhct.header.table_header.length = Len(RHCT_to_aml_bytes(rhct))

\* C9: every IsaStringHandle returned by add_isa_string is the byte offset at which
\* its ISA-string node begins in the serialized table, and every hart-info node
\* serializes, in its handle dword, the handle it was built from, however many nodes
\* were appended after it.
C9_HandleIsOffset ==
    table = "RHCT" =>
        LET bytes == RHCT_to_aml_bytes(rhct)
        IN  /\ \A h \in 1..Len(handles) :
                  /\ handles[h].node \in RhctNodes(rhct, "IsaStringNode")
                  /\ handles[h].handle = RhctNodeOffset(rhct, handles[h].node)
                  /\ SubSeq(bytes, handles[h].handle + 1,
                            handles[h].handle + IsaStringNode_len(rhct.structures[handles[h].node]))
                        = IsaStringNode_to_aml_bytes(rhct.structures[handles[h].node])
            /\ \A k \in RhctNodes(rhct, "HartInfoNode") :
                  /\ ReadDword(bytes, RhctNodeOffset(rhct, k) + 12) = rhct.structures[k].handle
                  /\ \E h \in 1..Len(handles) :
                        /\ handles[h].handle = rhct.structures[k].handle
                        /\ handles[h].node < k

\* a hart-info node refers to the second ISA string, and a node was appended after it
C9_Witness ==
    /\ table = "RHCT"
    /\ \E k \in RhctNodes(rhct, "HartInfoNode") :
          /\ k < Len(rhct.structures)
          /\ Len(handles) >= 2
          /\ rhct.structures[k].handle = handles[2].handle
          /\ handles[2].handle > 56
          /\ ReadDword(RHCT_to_aml_bytes(rhct), RhctNodeOffset(rhct, k) + 12)
                = RhctNodeOffset(rhct, handles[2].node)

(***************************************************************************)
(* XSDT                                                                    *)
(***************************************************************************)
\* xsdt.rs Header::as_bytes (packed, little-endian)
XSDT_Header_as_bytes(h) ==
    h.signature \o LE32(h.length) \o <<h.revision, h.checksum>>
        \o h.oem_id \o h.oem_table_id \o LimbsLE(h.oem_revision)
        \o h.creator_id \o h.creator_revision

\* size_of::<Header>() of xsdt.rs
XSDT_Header_size == 4 + 4 + 1 + 1 + 6 + 8 + 4 + 4 + 4

\* size_of::<XSDT>() on a target with pointers of ptr bytes: the packed header, the
\* one-byte Checksum and the three words of a Vec<u64>, padded to the alignment of Vec
SizeOfXSDT(ptr) ==
    LET fields == XSDT_Header_size + 1 + 3 * ptr
    IN  ((fields + ptr - 1) \div ptr) * ptr

\* the pointer widths, in bytes, of the targets the crate is built for
PointerWidths == {4, 8}

\* XSDT::new(oem_id, oem_table_id, oem_revision)
XSDT_new(oem, ptr) ==
    LET header == [signature |-> <<88, 83, 68, 84>>,
                   length |-> SizeOfXSDT(ptr),
                   revision |-> 1,
                   checksum |-> 0,
                   oem_id |-> oem.oem_id,
                   oem_table_id |-> oem.oem_table_id,
                   oem_revision |-> oem.oem_revision,
                   creator_id |-> CREATOR_ID,
                   creator_revision |-> CREATOR_REVISION]
        cksum == Checksum_append(Checksum_default, XSDT_Header_as_bytes(header))
    IN  [header |-> [header EXCEPT !.checksum = Checksum_value(cksum)],
         checksum |-> cksum,
         entries |-> <<>>]

\* XSDT::add_entry that leaves the header's checksum byte as it was
XSDT_add_entry_StaleChecksum(x, entry) ==
    [x EXCEPT !.checksum = Checksum_append(x.checksum, LimbsLE(entry)),
              !.entries = Append(@, entry)]

\* XSDT::add_entry that overwrites the last entry once one is held
XSDT_add_entry_ReplaceLast(x, entry) ==
    LET c1 == Checksum_append(x.checksum, LimbsLE(entry))
    IN  [x EXCEPT !.checksum = c1,
                  !.header.checksum = Checksum_value(c1),
                  !.entries = IF @ = <<>> THEN <<entry>>
                              ELSE SubSeq(@, 1, Len(@) - 1) \o <<entry>>]

\* XSDT::add_entry(entry)
XSDT_add_entry(x, entry) ==
    LET c1 == Checksum_append(x.checksum, LimbsLE(entry))
    IN  [x EXCEPT !.checksum = c1,
                  !.header.checksum = Checksum_value(c1),
                  !.entries = Append(@, entry)]

\* <XSDT as Aml>::to_aml_bytes into a Vec<u8>: sink.byte per header byte, sink.qword per entry
XSDT_to_aml_bytes(x) ==
    XSDT_Header_as_bytes(x.header)
        \o Flatten([i \in 1..Len(x.entries) |-> LimbsLE(x.entries[i])])

\* <XSDT as Aml>::to_aml_bytes(&self, sink): the XSDT and the sink after the call
XSDT_Aml_to_aml_bytes(x, sink) == [self |-> x, sink |-> sink \o XSDT_to_aml_bytes(x)]

\* 64-bit table addresses given to add_entry
XsdtEntries ==
    { Wide64(0, 0, 0, 0), Wide64(0, 0, 0, 42), Wide64(291, 17767, 35243, 52719),
      Wide64(65535, 65535, 65535, 65535) }

InitXSDT ==
    /\ table = "XSDT"
    /\ \E oem \in {OemFoobar, OemRivos}, ptr \in PointerWidths : xsdt = XSDT_new(oem, ptr)
    /\ madt = Absent /\ rhct = Absent /\ rqsc = Absent
    /\ handles = <<>>
    /\ aborted = FALSE
    /\ appended = <<>> /\ sinks = <<>> /\ acc = Absent

AddEntry ==
    /\ table = "XSDT" /\ ~aborted
    /\ Len(xsdt.entries) < MaxXsdtEntries
    /\ \E entry \in XsdtEntries :
          /\ xsdt' = XSDT_add_entry(xsdt, entry)
          /\ appended' = Append(appended, entry)
    /\ sinks' = <<>>
    /\ UNCHANGED <<table, madt, rhct, rqsc, handles, aborted, acc>>

\* xsdt.to_aml_bytes(&mut bytes) with a fresh Vec
XsdtToAmlBytes ==
    /\ table = "XSDT" /\ ~aborted
    /\ Len(xsdt.entries) <= MaxSerializedStructures
    /\ Len(sinks) < MaxSerializeCalls
    /\ LET r == XSDT_Aml_to_aml_bytes(xsdt, <<>>)
       IN  xsdt' = r.self /\ sinks' = Append(sinks, r.sink)
    /\ UNCHANGED <<table, madt, rhct, rqsc, handles, aborted, appended, acc>>

NextXSDT == AddEntry \/ XsdtToAmlBytes

SpecXSDT == InitXSDT /\ [][NextXSDT]_vars

\* C3: after XSDT::new and after every add_entry, the bytes to_aml_bytes produces
\* (header, then every entry as a little-endian qword) sum to 0 mod 256.
C3_XsdtChecksum ==
    table = "XSDT" => SumBytes(XSDT_to_aml_bytes(xsdt)) = 0

\* an XSDT with several entries, one of them all ones, summing to 0
C3_Witness ==
    /\ table = "XSDT"
    /\ Len(xsdt.entries) >= 3
    /\ \E i \in 1..Len(xsdt.entries) : xsdt.entries[i] = Wide64(65535, 65535, 65535, 65535)
    /\ \E i \in 1..Len(xsdt.entries) : xsdt.entries[i] = Wide64(291, 17767, 35243, 52719)
    /\ SumBytes(XSDT_to_aml_bytes(xsdt)) = 0

\* C6: after XSDT::new and after every add_entry, the header's length field equals
\* the number of bytes to_aml_bytes produces (36 plus 8 per entry).
C6_XsdtLength ==
    table = "XSDT" =>
        /\ xsdt.header.length = Len(XSDT_to_aml_bytes(xsdt))
        /\ Len(XSDT_to_aml_bytes(xsdt)) = 36 + 8 * Len(xsdt.entries)

(***************************************************************************)
(* RQSC                                                                    *)
(***************************************************************************)
\* ControllerType, ResourceType
Capacity == 0
Bandwidth == 1
Cache == 0
Memory == 1

\* gas::GAS::new(address_space_id, register_bit_width, register_bit_offset,
\* access_size, address)
GAS_new(address_space_id, register_bit_width, register_bit_offset, access_size, address) ==
    [address_space_id |-> address_space_id, register_bit_width |-> register_bit_width,
     register_bit_offset |-> register_bit_offset, access_size |-> access_size,
     address |-> address]

\* GAS::as_bytes (packed)
GAS_as_bytes(g) ==
    <<g.address_space_id, g.register_bit_width, g.register_bit_offset, g.access_size>>
        \o LimbsLE(g.address)

\* QoSController::new(...)
QoSController_new(controller_type, register_interface_address, resource_type, resource_id, rcid_count, mcid_count) ==
    [controller_type |-> controller_type,
     reserved0 |-> 0,
     length |-> Wide16(32),
     register |-> register_interface_address,
     reserved1 |-> <<0, 0, 0>>,
     resource_type |-> resource_type,
     resource_id |-> resource_id,
     rcid_count |-> rcid_count,
     mcid_count |-> mcid_count]

\* QoSController::as_bytes (packed); also its to_aml_bytes (aml_as_bytes!)
QoSController_as_bytes(q) ==
    <<q.controller_type, q.reserved0>> \o LimbsLE(q.length) \o GAS_as_bytes(q.register)
        \o q.reserved1 \o <<q.resource_type>> \o LimbsLE(q.resource_id)
        \o LimbsLE(q.rcid_count) \o LimbsLE(q.mcid_count)

\* RQSC::new(oem_id, oem_table_id, oem_revision)
RQSC_new(oem) ==
    LET header == [signature |-> <<82, 81, 83, 67>>,
                   length |-> TableHeader_len,
                   revision |-> 1,
                   checksum |-> 0,
                   oem_id |-> oem.oem_id,
                   oem_table_id |-> oem.oem_table_id,
                   oem_revision |-> oem.oem_revision,
                   creator_id |-> CREATOR_ID,
                   creator_revision |-> CREATOR_REVISION]
        cksum == Checksum_append(Checksum_default, TableHeader_as_bytes(header))
    IN  [header |-> [header EXCEPT !.checksum = Checksum_value(cksum)],
         structures |-> <<>>]

\* <RQSC as Aml>::to_aml_bytes that writes the size of the controllers in bytes where
\* their number belongs
RQSC_to_aml_bytes_ByteCount(r) ==
    TableHeader_as_bytes(r.header) \o AmlSink_dword(32 * Len(r.structures))
        \o Flatten([i \in 1..Len(r.structures) |-> QoSController_as_bytes(r.structures[i])])

\* <RQSC as Aml>::to_aml_bytes into a byte sink
RQSC_to_aml_bytes(r) ==
    TableHeader_as_bytes(r.header) \o AmlSink_dword(Len(r.structures))
        \o Flatten([i \in 1..Len(r.structures) |-> QoSController_as_bytes(r.structures[i])])

\* to_aml_bytes that clears the header's checksum byte itself before writing
RQSC_Aml_to_aml_bytes_ZeroChecksum(r, sink) ==
    LET r1 == [r EXCEPT !.header.checksum = 0]
    IN  [self |-> r1, sink |-> sink \o RQSC_to_aml_bytes(r1)]

\* <RQSC as Aml>::to_aml_bytes(&self, sink): the RQSC and the sink after the call
RQSC_Aml_to_aml_bytes(r, sink) == [self |-> r, sink |-> sink \o RQSC_to_aml_bytes(r)]

\* RQSC::update_header that sums the table with the old checksum byte still in place
RQSC_update_header_KeepChecksum(r, data) ==
    LET len == Len(data)
        old_len == r.header.length
        new_len == len + old_len
        r1 == [r EXCEPT !.header.length = new_len]
        cksum == Checksum_append(Checksum_default, RQSC_to_aml_bytes(r1))
    IN  [r1 EXCEPT !.header.checksum = Checksum_value(cksum)]

\* RQSC::update_header(data)
RQSC_update_header(r, data) ==
    LET len == Len(data)
        old_len == r.header.length
        new_len == len + old_len
        r1 == [r EXCEPT !.header.length = new_len, !.header.checksum = 0]
        cksum == Checksum_append(Checksum_default, RQSC_to_aml_bytes(r1))
    IN  [r1 EXCEPT !.header.checksum = Checksum_value(cksum)]

\* RQSC::add_controller(q)
RQSC_add_controller(r, q) ==
    LET r1 == [r EXCEPT !.structures = Append(@, q)]
    IN  RQSC_update_header(r1, QoSController_as_bytes(q))

\* controllers given to add_controller; the first is the one of the tests
QoSControllers ==
    { QoSController_new(Capacity, GAS_new(0, 64, 0, 4, Wide64(291, 17767, 35243, 52719)),
                        Memory, Wide32(16962, 16962), Wide32(14135, 14135),
                        Wide32(22102, 22102)),
      QoSController_new(Bandwidth, GAS_new(0, 32, 0, 3, Wide64(0, 0, 4096, 0)),
                        Cache, Wide32(0, 1), Wide32(0, 0), Wide32(65535, 65535)),
      QoSController_new(Capacity, GAS_new(0, 64, 0, 4, Wide64(0, 1, 0, 255)),
                        Cache, Wide32(0, 7), Wide32(0, 64), Wide32(0, 0)) }

InitRQSC ==
    /\ table = "RQSC"
    /\ \E oem \in {OemFoobar, OemRivos} : rqsc = RQSC_new(oem)
    /\ madt = Absent /\ rhct = Absent /\ xsdt = Absent
    /\ handles = <<>>
    /\ aborted = FALSE
    /\ appended = <<>> /\ sinks = <<>> /\ acc = Absent

AddController ==
    /\ table = "RQSC" /\ ~aborted
    /\ Len(rqsc.structures) < MaxRqscControllers
    /\ \E q \in QoSControllers :
          /\ rqsc' = RQSC_add_controller(rqsc, q)
          /\ appended' = Append(appended, q)
    /\ sinks' = <<>>
    /\ UNCHANGED <<table, madt, rhct, xsdt, handles, aborted, acc>>

\* rqsc.to_aml_bytes(&mut bytes) with a fresh Vec
RqscToAmlBytes ==
    /\ table = "RQSC" /\ ~aborted
    /\ Len(rqsc.structures) <= MaxSerializedStructures
    /\ Len(sinks) < MaxSerializeCalls
    /\ LET r == RQSC_Aml_to_aml_bytes(rqsc, <<>>)
       IN  rqsc' = r.self /\ sinks' = Append(sinks, r.sink)
    /\ UNCHANGED <<table, madt, rhct, xsdt, handles, aborted, appended, acc>>

NextRQSC == AddController \/ RqscToAmlBytes

SpecRQSC == InitRQSC /\ [][NextRQSC]_vars

\* C4: after RQSC::new and after every add_controller, the bytes to_aml_bytes
\* produces (header, the 4-byte controller count, every controller) sum to 0 mod 256;
\* for the bare table the checksum new stored over the header alone is still valid.
C4_RqscChecksum ==
    table = "RQSC" => SumBytes(RQSC_to_aml_bytes(rqsc)) = 0

\* a RQSC with several distinct controllers whose bytes sum to 0
C4_Witness ==
    /\ table = "RQSC"
    /\ Len(rqsc.structures) >= 3
    /\ \E i, j \in 1..Len(rqsc.structures) : rqsc.structures[i] # rqsc.structures[j]
    /\ SumBytes(RQSC_to_aml_bytes(rqsc)) = 0

\* C7: after RQSC::new and after every add_controller, the header's length field
\* equals the number of bytes to_aml_bytes produces (header, plus the 4-byte count,
\* plus 32 per controller).
C7_RqscLength ==
    table = "RQSC" =>
        /\ rqsc.header.length = Len(RQSC_to_aml_bytes(rqsc))
        /\ Len(RQSC_to_aml_bytes(rqsc)) = TableHeader_len + 4 + 32 * Len(rqsc.structures)

(***************************************************************************)
(* Any one of the four builders.                                           *)
(***************************************************************************)
Init == InitMADT \/ InitRHCT \/ InitXSDT \/ InitRQSC

Next == NextMADT \/ NextRHCT \/ NextXSDT \/ NextRQSC

Spec == Init /\ [][Next]_vars

\* the structures the builder holds, in the order it holds them
Stored ==
    CASE table = "MADT" -> madt.structures
      [] table = "RHCT" -> rhct.structures
      [] table = "XSDT" -> xsdt.entries
      [] table = "RQSC" -> rqsc.structures

\* the bytes to_aml_bytes writes for the builder of table type t
SerializedOf(t, m, r, x, q) ==
    CASE t = "MADT" -> MADT_to_aml_bytes(m)
      [] t = "RHCT" -> RHCT_to_aml_bytes(r)
      [] t = "XSDT" -> XSDT_to_aml_bytes(x)
      [] t = "RQSC" -> RQSC_to_aml_bytes(q)

\* the bytes to_aml_bytes writes for the builder as it is
Serialized == SerializedOf(table, madt, rhct, xsdt, rqsc)

\* the size the specification gives for a structure handed to a fixed-size append:
\* add_rintc 20, add_imsic 16, add_aplic 38, add_controller 32, add_entry 8
C11_FixedSize(s) ==
    CASE table = "MADT" /\ s.type = RISCV_INTC_STRUCTURE -> 20
      [] table = "MADT" /\ s.type = RISCV_IMSIC_STRUCTURE -> 16
      [] table = "MADT" /\ s.type = RISCV_APLIC_STRUCTURE -> 38
      [] table = "RQSC" -> 32
      [] table = "XSDT" -> 8

\* the serialized size of a builder no append was made to: 44 for the MADT,
\* TableHeader size + 4 for the RQSC, the 36-byte header for the XSDT
C11_BareSize ==
    CASE table = "MADT" -> 44
      [] table = "RQSC" -> TableHeader_len + 4
      [] table = "XSDT" -> XSDT_Header_size

RECURSIVE C11_FixedSizes(_)
C11_FixedSizes(structs) ==
    IF structs = <<>> THEN 0
    ELSE C11_FixedSize(Head(structs)) + C11_FixedSizes(Tail(structs))

\* C11: each fixed-size append grows the output of to_aml_bytes by exactly the size of
\* the structure: 20 for add_rintc, 38 for add_aplic, 16 for add_imsic, 32 for
\* add_controller, 8 for add_entry, so after any sequence of appends the output is the
\* bare size (44 for the MADT, TableHeader size + 4 for the RQSC) plus N * S for the
\* N appends of each size S, and every further append adds its own S.
C11_FixedSizeGrowth ==
    table \in {"MADT", "RQSC", "XSDT"}
        => Len(Serialized) = C11_BareSize + C11_FixedSizes(appended)

\* three QoS controllers were appended to a bare RQSC: 3 * 32 bytes more
C11_Witness ==
    /\ table = "RQSC"
    /\ Len(appended) = 3
    /\ Len(Serialized) = TableHeader_len + 4 + 3 * 32

\* C12: to_aml_bytes changes nothing in the builder (header, checksum accumulator,
\* stored structures, handle offset), and the calls made with no append between them
\* write identical bytes.
C12_SerializationPure ==
    /\ [][Len(sinks') = Len(sinks) + 1
            => /\ madt' = madt /\ rhct' = rhct /\ xsdt' = xsdt /\ rqsc' = rqsc
               /\ handles' = handles]_vars
    /\ [](\A i, j \in 1..Len(sinks) : sinks[i] = sinks[j])

\* an RHCT holding nodes was serialized twice in a row
C12_Witness ==
    /\ table = "RHCT"
    /\ Len(rhct.structures) >= 2
    /\ Len(sinks) = 2
    /\ sinks[1] = sinks[2]
    /\ sinks[2] = RHCT_to_aml_bytes(rhct)
\* the header bytes a table's to_aml_bytes writes before anything else
HeaderBytes ==
    CASE table = "MADT" -> MADT_Header_as_bytes(madt.header)
      [] table = "RHCT" -> RHCT_Header_as_bytes(rhct.header)
      [] table = "XSDT" -> XSDT_Header_as_bytes(xsdt.header)
      [] table = "RQSC" -> TableHeader_as_bytes(rqsc.header)

\* the bytes one structure handed to an append writes to the sink
StructureBytes(s) ==
    CASE table = "MADT" -> MADT_Structure_bytes(s)
      [] table = "RHCT" -> RHCT_Node_bytes(s)
      [] table = "XSDT" -> LimbsLE(s)
      [] table = "RQSC" -> QoSController_as_bytes(s)

\* C13: for every table type the sink receives the header bytes first (the RQSC writes
\* its controller-count dword right after them) and then the bytes of each structure in
\* exactly the order the appends were called: the k-th appended structure is the k-th
\* stored and the k-th emitted, also for interleaved MADT and RHCT sequences.
C13_SerializationOrder ==
    /\ Len(Stored) = Len(appended)
    /\ \A k \in 1..Len(appended) : Stored[k] = appended[k]
    /\ Serialized =
            HeaderBytes
            \o (IF table = "RQSC" THEN AmlSink_dword(Len(appended)) ELSE <<>>)
            \o Flatten([k \in 1..Len(appended) |-> StructureBytes(appended[k])])

\* an APLIC, a RINTC, an IMSIC and another RINTC were appended to a MADT, in this order
C13_Witness ==
    /\ table = "MADT"
    /\ Len(appended) = 4
    /\ appended[1].type = RISCV_APLIC_STRUCTURE
    /\ appended[2].type = RISCV_INTC_STRUCTURE
    /\ appended[3].type = RISCV_IMSIC_STRUCTURE
    /\ appended[4].type = RISCV_INTC_STRUCTURE
    /\ Len(Serialized) = 44 + 38 + 20 + 16 + 20
(***************************************************************************)
(* The Checksum accumulator on its own                                     *)
(***************************************************************************)
MaxPending == 3

\* byte strings given to append: length and count encodings, and bytes that make the
\* running sum wrap in either direction
ChecksumInputs ==
    { <<1>>, <<255>>, <<200, 100>>, LE32(56), LE32(300) }

\* RHCT nodes whose u8sum is given to add
ChecksumNodes ==
    { IsaStringNode_new(string) : string \in IsaStrings }
        \cup { HartInfoNode_new(uid, 56) : uid \in ProcessorUids }

\* u8sum() of a RHCT node
RHCT_Node_u8sum(n) ==
    IF n.node = "IsaStringNode" THEN IsaStringNode_u8sum(n) ELSE HartInfoNode_u8sum(n)

\* state: the accumulator; data: the byte strings appended and not deleted since;
\* replayed: an accumulator given the same calls, with every add(u8sum(node)) replaced
\* by node.to_aml_bytes(&mut checksum); wrapped: a delete took away a byte larger than
\* the running state
InitChecksum ==
    /\ table = "Checksum"
    /\ acc = [state |-> Checksum_default, data |-> <<>>,
               replayed |-> Checksum_default, wrapped |-> FALSE]
    /\ madt = Absent /\ rhct = Absent /\ xsdt = Absent /\ rqsc = Absent
    /\ handles = <<>> /\ aborted = FALSE /\ appended = <<>> /\ sinks = <<>>

ChecksumAppend ==
    /\ table = "Checksum"
    /\ Len(acc.data) < MaxPending
    /\ \E b \in ChecksumInputs :
          acc' = [acc EXCEPT !.state = Checksum_append(@, b),
                             !.replayed = Checksum_append(@, b),
                             !.data = Append(@, b)]
    /\ UNCHANGED <<table, madt, rhct, xsdt, rqsc, handles, aborted, appended, sinks>>

\* delete of a byte string appended before
ChecksumDelete ==
    /\ table = "Checksum"
    /\ \E i \in 1..Len(acc.data) :
          LET b == acc.data[i]
          IN  acc' = [acc EXCEPT !.state = Checksum_delete(@, b),
                                 !.replayed = Checksum_delete(@, b),
                                 !.data = SubSeq(@, 1, i - 1) \o SubSeq(@, i + 1, Len(@)),
                                 !.wrapped = @ \/ b[1] > acc.state]
    /\ UNCHANGED <<table, madt, rhct, xsdt, rqsc, handles, aborted, appended, sinks>>

\* add(node.u8sum())
ChecksumAdd ==
    /\ table = "Checksum"
    /\ Len(acc.data) < MaxPending
    /\ \E n \in ChecksumNodes :
          LET bytes == RHCT_Node_bytes(n)
          IN  acc' = [acc EXCEPT !.state = Checksum_add(@, RHCT_Node_u8sum(n)),
                                 !.replayed = Checksum_replay(@, bytes, 1, Len(bytes)),
                                 !.data = Append(@, bytes)]
    /\ UNCHANGED <<table, madt, rhct, xsdt, rqsc, handles, aborted, appended, sinks>>

NextChecksum == ChecksumAppend \/ ChecksumDelete \/ ChecksumAdd

SpecChecksum == InitChecksum /\ [][NextChecksum]_vars
\* the sum of the bytes as a number, not reduced
ByteTotal(bytes) == BagCardinality([i \in 1..Len(bytes) |-> bytes[i] + 1]) - Len(bytes)

\* C14: for every accumulator state and byte string b, append(b) followed by delete(b)
\* restores the state; hence after any appends, adds and deletes of strings appended
\* before, value() is the byte c with (sum of the net appended bytes + c) mod 256 = 0,
\* also when a deleted byte is larger than the running state (wrapping subtraction).
C14_DeleteInvertsAppend ==
    table = "Checksum" =>
        /\ \A b \in ChecksumInputs \cup { acc.data[i] : i \in 1..Len(acc.data) } :
               Checksum_delete(Checksum_append(acc.state, b), b) = acc.state
        /\ Checksum_value(acc.state) \in 0..255
        /\ (ByteTotal(Flatten(acc.data)) + Checksum_value(acc.state)) % 256 = 0

\* a delete wrapped below 0 and byte strings remain appended
C14_Witness ==
    /\ table = "Checksum"
    /\ acc.wrapped
    /\ Len(acc.data) >= 2
    /\ ByteTotal(Flatten(acc.data)) % 256 # 0

\* C15: for every RHCT node s (ISA string or hart info) and every accumulator state,
\* add(u8sum(s)) leaves the accumulator as serializing s into it through the sink path
\* does (every word and dword split into little-endian bytes), which is append of the
\* bytes s serializes to.
C15_AddEqualsReplay ==
    table = "Checksum" =>
        /\ acc.state = acc.replayed
        /\ \A n \in ChecksumNodes :
               LET bytes == RHCT_Node_bytes(n)
                   added == Checksum_add(acc.state, RHCT_Node_u8sum(n))
               IN  /\ added = Checksum_replay(acc.state, bytes, 1, Len(bytes))
                   /\ added = Checksum_append(acc.state, bytes)

\* a padded ISA-string node and a hart-info node were added to an accumulator that
\* held other bytes
C15_Witness ==
    /\ table = "Checksum"
    /\ Len(acc.data) = 3
    /\ acc.data[1] = LE32(300)
    /\ acc.data[2] = IsaStringNode_to_aml_bytes(IsaStringNode_new(<<102, 111, 111, 98, 97, 114>>))
    /\ acc.data[3] = HartInfoNode_to_aml_bytes(HartInfoNode_new(Wide32(65535, 65280), 56))
    /\ acc.state = acc.replayed
    /\ acc.state # 0

\* C16: for every byte string data, generate_checksum(data), and value() after data is
\* appended to a fresh accumulator, is the c in 0..255 with (sum of data + c) mod 256
\* = 0, computed as (255 - sum) + 1 with 8-bit wrap-around; it is 0 when the sum is 0
\* mod 256.
C16_AdditiveInverse ==
    table = "Checksum" =>
        \A data \in { Flatten(acc.data) } \cup { acc.data[i] : i \in 1..Len(acc.data) } :
            LET c == generate_checksum(data)
            IN  /\ c \in 0..255
                /\ (ByteTotal(data) + c) % 256 = 0
                /\ c = Checksum_value(Checksum_append(Checksum_default, data))
                /\ (ByteTotal(data) % 256 = 0 => c = 0)

\* the bytes 1 and 255 sum to 256: the checksum of a non-empty string is 0
C16_Witness ==
    /\ table = "Checksum"
    /\ acc.data = << <<1>>, <<255>> >>
    /\ ByteTotal(Flatten(acc.data)) = 256
    /\ generate_checksum(Flatten(acc.data)) = 0
(***************************************************************************)
(* C17: the steps of update_header in other orders                         *)
(***************************************************************************)
\* MADT::update_header with the new length encoding appended before the old one is deleted
C17_MADT_AppendFirst(m, data) ==
    LET old_len == m.header.table_header.length
        new_len == Len(data) + old_len
        c1 == Checksum_append(m.checksum, LE32(new_len))
        c2 == Checksum_delete(c1, LE32(old_len))
        c3 == Checksum_append(c2, data)
    IN  [m EXCEPT !.header.table_header.length = new_len,
                  !.checksum = c3,
                  !.header.table_header.checksum = Checksum_value(c3)]

\* MADT::update_header with the structure's bytes folded in first
C17_MADT_DataFirst(m, data) ==
    LET old_len == m.header.table_header.length
        new_len == Len(data) + old_len
        c1 == Checksum_append(m.checksum, data)
        c2 == Checksum_delete(c1, LE32(old_len))
        c3 == Checksum_append(c2, LE32(new_len))
    IN  [m EXCEPT !.header.table_header.length = new_len,
                  !.checksum = c3,
                  !.header.table_header.checksum = Checksum_value(c3)]

\* RHCT::update_header with the new count and length encodings appended before the
\* old ones are deleted
C17_RHCT_AppendFirst(r, sum, len) ==
    LET old_len == r.header.table_header.length
        new_len == len + old_len
        old_node_count == r.header.rhct_nodes
        new_node_count == old_node_count + 1
        c1 == Checksum_append(r.checksum, LE32(new_len))
        c2 == Checksum_append(c1, LE32(new_node_count))
        c3 == Checksum_delete(c2, LE32(old_len))
        c4 == Checksum_delete(c3, LE32(old_node_count))
        c5 == Checksum_add(c4, sum)
    IN  [r EXCEPT !.header.table_header.length = new_len,
                  !.header.rhct_nodes = new_node_count,
                  !.checksum = c5,
                  !.header.table_header.checksum = Checksum_value(c5)]

\* RHCT::update_header with the node's sum folded in first and the length before the count
C17_RHCT_AddFirst(r, sum, len) ==
    LET old_len == r.header.table_header.length
        new_len == len + old_len
        old_node_count == r.header.rhct_nodes
        new_node_count == old_node_count + 1
        c1 == Checksum_add(r.checksum, sum)
        c2 == Checksum_delete(c1, LE32(old_len))
        c3 == Checksum_append(c2, LE32(new_len))
        c4 == Checksum_delete(c3, LE32(old_node_count))
        c5 == Checksum_append(c4, LE32(new_node_count))
    IN  [r EXCEPT !.header.table_header.length = new_len,
                  !.header.rhct_nodes = new_node_count,
                  !.checksum = c5,
                  !.header.table_header.checksum = Checksum_value(c5)]

\* length values whose encoding changes in one, two, three or four bytes when a
\* structure of 14, 16, 20, 38 or 210 bytes is added
C17_LengthPatterns ==
    { 44, 56, 218, 236, 240, 242, 255, 65326, 65516, 65535, 16777196, 16777215 }

\* a checksum-valid MADT whose header carries the length L
C17_MadtWithLength(L) ==
    LET m == MADT_new(OemFoobar, Riscv)
        c == Checksum_append(Checksum_delete(m.checksum, LE32(MADT_Header_len)), LE32(L))
    IN  [m EXCEPT !.header.table_header.length = L,
                  !.checksum = c,
                  !.header.table_header.checksum = Checksum_value(c)]

\* a checksum-valid RHCT whose header carries the length L
C17_RhctWithLength(L) ==
    LET r == RHCT_new(OemRivos, Wide64(0, 36882, 4660, 22136))
        c == Checksum_append(Checksum_delete(r.checksum, LE32(RHCT_Header_len)), LE32(L))
    IN  [r EXCEPT !.header.table_header.length = L,
                  !.checksum = c,
                  !.header.table_header.checksum = Checksum_value(c)]

C17_MadtTables ==
    { C17_MadtWithLength(L) : L \in C17_LengthPatterns }
        \cup (IF table = "MADT" THEN {madt} ELSE {})

C17_RhctTables ==
    { C17_RhctWithLength(L) : L \in C17_LengthPatterns }
        \cup (IF table = "RHCT" THEN {rhct} ELSE {})

C17_MadtInputs == RintcInputs \cup ImsicInputs \cup AplicInputs

C17_NodeLen(n) == IF n.node = "IsaStringNode" THEN IsaStringNode_len(n) ELSE HartInfoNode_len
\* C17 as stated: there are length values for which the steps of update_header, run
\* in another order (the new length encoding appended before the old one is deleted,
\* or the structure folded in first), give a table whose bytes do not sum to 0 mod 256.
C17_OrderSensitive ==
    \/ \E m \in C17_MadtTables, s \in C17_MadtInputs :
          \E m1 \in { C17_MADT_AppendFirst(m, MADT_Structure_bytes(s)),
                      C17_MADT_DataFirst(m, MADT_Structure_bytes(s)) } :
              SumBytes(MADT_to_aml_bytes([m1 EXCEPT !.structures = Append(@, s)])) # 0
    \/ \E r \in C17_RhctTables, n \in ChecksumNodes :
          \E r1 \in { C17_RHCT_AppendFirst(r, RHCT_Node_u8sum(n), C17_NodeLen(n)),
                      C17_RHCT_AddFirst(r, RHCT_Node_u8sum(n), C17_NodeLen(n)) } :
              SumBytes(RHCT_to_aml_bytes([r1 EXCEPT !.structures = Append(@, n)])) # 0

\* C17, amended: the accumulator steps of one append commute.  For every table state
\* and every structure, deleting the old length encoding, appending the new one and
\* folding in the structure, run in any order with the same values, leave the same
\* header, length, accumulator and checksum byte as the order of the source, which
\* keeps the checksum byte paired with the accumulator.
C17_StepsCommute ==
    /\ table = "MADT" =>
          \A s \in C17_MadtInputs :
              LET data == MADT_Structure_bytes(s)
                  code == MADT_update_header(madt, data)
              IN  /\ C17_MADT_AppendFirst(madt, data) = code
                  /\ C17_MADT_DataFirst(madt, data) = code
    /\ table = "RHCT" =>
          \A n \in ChecksumNodes :
              LET sum == RHCT_Node_u8sum(n)
                  len == C17_NodeLen(n)
                  code == RHCT_update_header(rhct, sum, len)
              IN  /\ C17_RHCT_AppendFirst(rhct, sum, len) = code
                  /\ C17_RHCT_AddFirst(rhct, sum, len) = code
    /\ table = "MADT" => madt.header.table_header.checksum = Checksum_value(madt.checksum)
    /\ table = "RHCT" => rhct.header.table_header.checksum = Checksum_value(rhct.checksum)

\* an RHCT whose length went from one byte to two (56 to 266 and beyond) while nodes
\* of both kinds were appended
C17_Witness ==
    /\ table = "RHCT"
    /\ Len(rhct.structures) >= 3
    /\ rhct.header.table_header.length > 256
    /\ \E i, j \in 1..Len(rhct.structures) :
          rhct.structures[i].node = "IsaStringNode" /\ rhct.structures[j].node = "HartInfoNode"
    /\ SumBytes(Serialized) = 0
\* the byte offset of rhct_nodes in the RHCT header: TableHeader, reserved, timebase
RhctNodesOffset == TableHeader_len + 4 + 8

\* C18: the header's rhct_nodes field is 0 after RHCT::new and, after any sequence of
\* add_isa_string and add_hart_info calls, the number of nodes stored (one more per
\* append); the accumulator follows the count encoding, so it stays the sum of the
\* serialized bytes other than the checksum byte and the table sums to 0 mod 256.
C18_RhctNodeCount ==
    table = "RHCT" =>
        LET bytes == RHCT_to_aml_bytes(rhct)
        IN  /\ rhct.header.rhct_nodes = Len(rhct.structures)
            /\ rhct.header.rhct_nodes = Len(appended)
            /\ ReadDword(bytes, RhctNodesOffset) = Len(appended)
            /\ (rhct.checksum + rhct.header.table_header.checksum) % 256 = SumBytes(bytes)
            /\ SumBytes(bytes) = 0

\* three nodes were appended and the serialized count reads 3
C18_Witness ==
    /\ table = "RHCT"
    /\ Len(appended) = 3
    /\ appended[3].node = "HartInfoNode"
    /\ rhct.header.rhct_nodes = 3
    /\ ReadDword(RHCT_to_aml_bytes(rhct), RhctNodesOffset) = 3
\* C19: for every table type and every append, the stored structures before the call
\* are a strict prefix of those after it (one structure more, none removed or moved),
\* no other operation changes them, and the serialized length strictly increases
\* with each append.
C19_TablesOnlyGrow ==
    [][ /\ Len(Stored') >= Len(Stored)
        /\ SubSeq(Stored', 1, Len(Stored)) = Stored
        /\ Len(appended') = Len(appended) + 1
              => /\ Len(Stored') = Len(Stored) + 1
                 /\ Len(SerializedOf(table', madt', rhct', xsdt', rqsc')) > Len(Serialized)
        /\ Len(appended') = Len(appended) => Stored' = Stored ]_vars

\* an XSDT holds three entries, in the order they were given
C19_Witness ==
    /\ table = "XSDT"
    /\ Len(xsdt.entries) = 3
    /\ xsdt.entries = appended
    /\ xsdt.entries[1] # xsdt.entries[2]
    /\ Len(XSDT_to_aml_bytes(xsdt)) = XSDT_Header_size + 3 * 8
\* C20: every HartInfoNode serializes to exactly 16 bytes: type 65535, length 16,
\* revision 1, number of handles 1, the processor uid and one handle dword, and these
\* are the bytes the table holds at the node's place; the 16 that add_hart_info adds
\* to the header length and to the handle offset is the number of bytes the node emits.
C20_SingleHandle ==
    /\ [](table = "RHCT" =>
            \A k \in RhctNodes(rhct, "HartInfoNode") :
                LET n == rhct.structures[k]
                    bytes == HartInfoNode_to_aml_bytes(n)
                    off == RhctNodeOffset(rhct, k)
                IN  /\ Len(bytes) = 16
                    /\ SubSeq(bytes, 1, 8) = <<255, 255, 16, 0, 1, 0, 1, 0>>
                    /\ SubSeq(bytes, 9, 12) = LimbsLE(n.processor_uid)
                    /\ ReadDword(bytes, 12) = n.handle
                    /\ SubSeq(RHCT_to_aml_bytes(rhct), off + 1, off + 16) = bytes)
    /\ [][(/\ table = "RHCT"
            /\ Len(appended') = Len(appended) + 1
            /\ appended'[Len(appended')].node = "HartInfoNode")
            => /\ rhct'.header.table_header.length = rhct.header.table_header.length + 16
               /\ rhct'.handle_offset = rhct.handle_offset + 16
               /\ Len(RHCT_to_aml_bytes(rhct'))
                     = Len(RHCT_to_aml_bytes(rhct)) + Len(HartInfoNode_to_aml_bytes(appended'[Len(appended')]))
               /\ Len(HartInfoNode_to_aml_bytes(appended'[Len(appended')])) = 16 ]_vars

\* two hart-info nodes with different uids follow two ISA strings; the second refers
\* to the second string
C20_Witness ==
    /\ table = "RHCT"
    /\ Len(rhct.structures) = 4
    /\ rhct.structures[3].node = "HartInfoNode"
    /\ rhct.structures[4].node = "HartInfoNode"
    /\ rhct.structures[3].processor_uid # rhct.structures[4].processor_uid
    /\ rhct.structures[4].handle > 56
    /\ Len(HartInfoNode_to_aml_bytes(rhct.structures[4])) = 16
    /\ rhct.handle_offset = rhct.header.table_header.length
(***************************************************************************)
(* C21 to C23                                                              *)
(***************************************************************************)
\* ISA strings of every length up to MaxIsaStringLen are sized and serialized
MaxIsaStringLen == 8

\* the u16 read back from two little-endian bytes at offset off (0-based) of bytes
ReadWord(bytes, off) == bytes[off + 1] + 256 * bytes[off + 2]

\* the size properties of one ISA-string node
C21_NodeConsistent(node) ==
    LET n == Len(node.string)
        bytes == IsaStringNode_to_aml_bytes(node)
        padded == Len(bytes) = 8 + n + 1 + 1
    IN  /\ IsaStringNode_len(node) = Len(bytes)
        /\ Len(bytes) % 2 = 0
        /\ ReadWord(bytes, 2) = Len(bytes)
        /\ ReadWord(bytes, 6) = n + 1
        /\ SubSeq(bytes, 9, 8 + n) = node.string
        /\ bytes[8 + n + 1] = 0
        /\ padded \/ Len(bytes) = 8 + n + 1
        /\ padded <=> (n + 1) % 2 = 1
        /\ padded => bytes[8 + n + 2] = 0

\* C21: for every string of n bytes whose node size fits in 16 bits,
\* IsaStringNode::len() equals the number of bytes to_aml_bytes emits, that number is
\* even, the emitted length word equals it, the emitted string-length word is n + 1,
\* and a padding byte is emitted exactly when n + 1 is odd.
C21_IsaNodeSize ==
    table = "RHCT" =>
        /\ \A k \in RhctNodes(rhct, "IsaStringNode") : C21_NodeConsistent(rhct.structures[k])
        /\ \A string \in IsaStrings : C21_NodeConsistent(IsaStringNode_new(string))
        /\ \A n \in 0..MaxIsaStringLen : C21_NodeConsistent(IsaStringNode_new(StringOf(n)))

\* the 200-byte string (padded to 210 bytes) and "rv64i" (14 bytes, not padded) are stored
C21_Witness ==
    /\ table = "RHCT"
    /\ Len(rhct.structures) >= 2
    /\ rhct.structures[1] = IsaStringNode_new(StringOf(200))
    /\ Len(IsaStringNode_to_aml_bytes(rhct.structures[1])) = 210
    /\ rhct.structures[2] = IsaStringNode_new(<<114, 118, 54, 52, 105>>)
    /\ Len(IsaStringNode_to_aml_bytes(rhct.structures[2])) = 14
\* C22: in every reachable RHCT state handle_offset equals the header's length field:
\* both are 56 after new and both have grown by the size of every node appended, so
\* every handle minted is at least 56 and strictly less than the table length after
\* the append that minted it (the end of its node).
C22_OffsetTracksLength ==
    table = "RHCT" =>
        /\ rhct.handle_offset = rhct.header.table_header.length
        /\ rhct.handle_offset = RhctNodeOffset(rhct, Len(rhct.structures) + 1)
        /\ rhct.structures = <<>> => rhct.handle_offset = 56
        /\ \A h \in 1..Len(handles) :
               LET minted == RhctNodeOffset(rhct, handles[h].node + 1)
               IN  /\ handles[h].handle >= 56
                   /\ handles[h].handle < minted
                   /\ minted <= rhct.header.table_header.length

\* two ISA strings with a hart-info node between them: the second handle is past 56
\* and short of the length
C22_Witness ==
    /\ table = "RHCT"
    /\ Len(rhct.structures) = 3
    /\ rhct.structures[2].node = "HartInfoNode"
    /\ Len(handles) = 2
    /\ handles[1].handle = 56
    /\ handles[2].handle > 56 + 16
    /\ handles[2].handle < rhct.handle_offset
    /\ rhct.handle_offset = rhct.header.table_header.length
\* C23: in the bytes RQSC to_aml_bytes produces, the little-endian dword right after
\* the table header is the number of add_controller calls made so far (0 for a bare
\* table), and the first four bytes are the signature "RQSC" after any number of
\* appends.
C23_RqscControllerCount ==
    table = "RQSC" =>
        LET bytes == RQSC_to_aml_bytes(rqsc)
        IN  /\ SubSeq(bytes, 1, 4) = <<82, 81, 83, 67>>
            /\ ReadDword(bytes, TableHeader_len) = Len(appended)
            /\ SubSeq(bytes, TableHeader_len + 1, TableHeader_len + 4) = LE32(Len(appended))
            /\ appended = <<>> => ReadDword(bytes, TableHeader_len) = 0

\* after three add_controller calls the dword after the header reads 3
C23_Witness ==
    /\ table = "RQSC"
    /\ Len(appended) = 3
    /\ ReadDword(RQSC_to_aml_bytes(rqsc), TableHeader_len) = 3
    /\ SubSeq(RQSC_to_aml_bytes(rqsc), 1, 4) = <<82, 81, 83, 67>>
====
